---- MODULE Spec2Model ----
(***************************************************************************)
(* Whittaker filter with GCV ("V-curve") optimisation of the smoothing     *)
(* penalty and asymmetric (envelope) weights: seasmon_xr/ops/ws2dwcvp.py.  *)
(*                                                                         *)
(* A float64 is an integer: a finite value x is the fixed-point number     *)
(* round(x * SC), in -MaxMag..MaxMag; the integers just beyond MaxMag stand *)
(* for +Inf and -Inf, NaN, and a non-zero magnitude below the resolution   *)
(* (the 1e-15 that replaces the zero eigenvalue).                          *)
(***************************************************************************)
EXTENDS Integers, Sequences, FiniteSets, TLC

----------------------------------------------------------------------------
(* float64                                                                 *)

SC == 1000
\* the largest finite magnitude, in units of 1/SC; a sum, product or quotient
\* beyond it is the infinity of its sign
MaxMag == 2000000

\* the values that are not finite fixed-point numbers
PInf == MaxMag + 1
NInf == -PInf
NaN == MaxMag + 2
\* a non-zero magnitude below the resolution: 1e-15 and its products
Tiny == MaxMag + 3

Zero == 0
One == SC

IsFin(a) == -MaxMag <= a /\ a <= MaxMag
IsNaN(a) == a = NaN
IsInf(a) == a = PInf \/ a = NInf
IsTiny(a) == a = Tiny \/ a = -Tiny
IsZero(a) == a = 0

Sgn(n) == IF n > 0 THEN 1 ELSE IF n < 0 THEN -1 ELSE 0
AbsI(n) == IF n < 0 THEN -n ELSE n

\* n / d rounded to the nearest integer, halves away from zero (n >= 0, d > 0)
RoundDiv(n, d) == IF 2 * (n % d) >= d THEN (n \div d) + 1 ELSE n \div d

Inf(s) == s * PInf
TinyS(s) == s * Tiny
Norm(v) == IF v > MaxMag THEN PInf ELSE IF v < -MaxMag THEN NInf ELSE v

Neg(a) == IF a = NaN THEN NaN ELSE -a
Abs(a) == IF a = NaN THEN NaN ELSE AbsI(a)

Add(a, b) ==
    IF IsFin(a) /\ IsFin(b) THEN Norm(a + b)
    ELSE IF IsNaN(a) \/ IsNaN(b) THEN NaN
    ELSE IF IsInf(a) THEN (IF IsInf(b) /\ b # a THEN NaN ELSE a)
    ELSE IF IsInf(b) THEN b
    ELSE IF IsTiny(a) THEN (IF IsTiny(b) THEN (IF a = b THEN a ELSE Zero)
                            ELSE IF IsZero(b) THEN a ELSE b)
    ELSE IF IsZero(a) THEN b ELSE a

Sub(a, b) == Add(a, Neg(b))

Mul(a, b) ==
    IF IsFin(a) /\ IsFin(b)
    THEN (IF a = 0 \/ b = 0 THEN Zero
          ELSE IF AbsI(a) > (MaxMag * SC) \div AbsI(b) THEN Inf(Sgn(a) * Sgn(b))
          ELSE Sgn(a) * Sgn(b) * RoundDiv(AbsI(a) * AbsI(b), SC))
    ELSE IF IsNaN(a) \/ IsNaN(b) THEN NaN
    ELSE IF IsInf(a) \/ IsInf(b)
         THEN (IF IsZero(a) \/ IsZero(b) THEN NaN ELSE Inf(Sgn(a) * Sgn(b)))
    ELSE IF IsZero(a) \/ IsZero(b) THEN Zero
    ELSE TinyS(Sgn(a) * Sgn(b))

\* array / scalar and array / array division: IEEE, never raises
Div(a, b) ==
    IF IsFin(a) /\ IsFin(b)
    THEN (IF b = 0 THEN (IF a = 0 THEN NaN ELSE Inf(Sgn(a)))
          ELSE Norm(Sgn(a) * Sgn(b) * RoundDiv(AbsI(a) * SC, AbsI(b))))
    ELSE IF IsNaN(a) \/ IsNaN(b) THEN NaN
    ELSE IF IsInf(a) THEN (IF IsInf(b) THEN NaN ELSE Inf(Sgn(a) * (IF b < 0 THEN -1 ELSE 1)))
    ELSE IF IsInf(b) THEN Zero
    ELSE IF IsZero(b) THEN Inf(Sgn(a))
    ELSE IF IsZero(a) THEN Zero
    ELSE IF IsTiny(b) THEN (IF IsTiny(a) THEN NaN ELSE Inf(Sgn(a) * Sgn(b)))
    ELSE TinyS(Sgn(a) * Sgn(b))

\* comparisons: every comparison with NaN is false, except !=
Rank(a) == IF IsInf(a) THEN 3 * Sgn(a) ELSE IF IsTiny(a) THEN Sgn(a) ELSE 2 * Sgn(a)
Lt(a, b) ==
    IF IsFin(a) /\ IsFin(b) THEN a < b
    ELSE IF IsNaN(a) \/ IsNaN(b) THEN FALSE
    ELSE Rank(a) < Rank(b)
Gt(a, b) == Lt(b, a)
Eq(a, b) == ~IsNaN(a) /\ ~IsNaN(b) /\ a = b
Ne(a, b) == ~Eq(a, b)

\* largest r in lo..hi with r * r <= n, by bisection
RECURSIVE ISqrt(_, _, _)
ISqrt(n, lo, hi) ==
    IF lo >= hi THEN lo
    ELSE LET mid == (lo + hi + 1) \div 2
         IN IF mid * mid <= n THEN ISqrt(n, mid, hi) ELSE ISqrt(n, lo, mid - 1)

Sqrt(a) ==
    IF IsFin(a) THEN (IF a < 0 THEN NaN
                      ELSE IF a <= SC THEN ISqrt(a * SC, IF a = SC THEN SC ELSE 0, SC)
                      ELSE ISqrt(a * SC, SC, 46340))
    ELSE IF a = PInf \/ a = Tiny THEN a
    ELSE NaN

RECURSIVE SumTo(_, _)
SumTo(s, i) == IF i = 0 THEN Zero ELSE Add(SumTo(s, i - 1), s[i])

SumSeq(s) == SumTo(s, Len(s))

\* the sequence s with its elements evaluated
Force(s) == SubSeq(s, 1, Len(s))

Sq(a) == Mul(a, a)

Seq0(m, v) == Force([i \in 1..m |-> v])

\* x ** e for a non-negative integer x and an integer exponent e
RECURSIVE IPow(_, _)
IPow(x, e) == IF e = 0 THEN 1 ELSE x * IPow(x, e - 1)

\* 10 ** e
Pow10(e) == IF e >= 0 THEN IPow(10, e) * SC ELSE RoundDiv(SC, IPow(10, -e))

\* numpy.round_(x, 0): to the nearest integer, halves to the even one
Round(a) ==
    IF ~IsFin(a) THEN (IF IsTiny(a) THEN Zero ELSE a)
    ELSE LET q == a \div SC
             r == a - q * SC
         IN IF 2 * r > SC \/ (2 * r = SC /\ q % 2 = 1) THEN (q + 1) * SC ELSE q * SC

\* float64 -> int16 as the store into out performs it: the fraction is dropped;
\* NaN, the infinities and values outside int16 have no defined conversion and
\* give the value g the build happens to produce
CastInt16(a, g) ==
    IF IsTiny(a) THEN Zero
    ELSE IF IsFin(a) THEN Sgn(a) * (AbsI(a) \div SC) * SC
    ELSE g

GarbageInt16 == {0, -32768 * SC}

----------------------------------------------------------------------------
(* Eigenvalues (lines 40-42)                                               *)

\* Taylor series of cos on [0, pi/2] with 10000 units per 1.0; x2 is x * x
RECURSIVE CosSeries(_, _, _, _)
CosSeries(x2, i, term, acc) ==
    IF i > 7 \/ term = 0 THEN acc
    ELSE LET nxt == (term * x2) \div (10000 * (2 * i - 1) * (2 * i))
         IN CosSeries(x2, i + 1, nxt, IF i % 2 = 1 THEN acc - nxt ELSE acc + nxt)

\* numpy.cos(k * numpy.pi / m) in units of 1/SC, for 0 <= k <= m
Cos(k, m) ==
    LET j == IF 2 * k > m THEN m - k ELSE k
        x == (j * 31416) \div m
        c == CosSeries((x * x) \div 10000, 1, 10000, 10000)
    IN (IF 2 * k > m THEN -1 ELSE 1) * RoundDiv(c, 10000 \div SC)

d_eigs(m) == Force([k \in 1..m |-> IF k = 1 THEN Tiny ELSE 2 * Cos(k - 1, m) - 2 * SC])

----------------------------------------------------------------------------
(* Weight initialiser (lines 29-38)                                        *)

Invalid(v, nd) == Eq(v, nd) \/ IsNaN(v) \/ IsInf(v)

Validity(yy, nd) == Force([i \in 1..Len(yy) |-> IF Invalid(yy[i], nd) THEN Zero ELSE One])

CountValid(yy, nd) == Cardinality({i \in 1..Len(yy) : ~Invalid(yy[i], nd)})

\* if n > 5: the optimisation (line 44)
MinValid == 5

----------------------------------------------------------------------------
(* Smoothing operator ws2d(y, lmda, w): an external collaborator.  Two     *)
(* deterministic penalised least-squares smoothers stand for it: "shrink"  *)
(* minimises sum w_i (y_i - z_i)^2 + lmda (z_i - mu)^2 around the weighted *)
(* mean mu, "mean" is its limit for a large penalty.                       *)

Smoothers == {"shrink", "mean"}

ws2d(mode, yy, lmda, wt) ==
    LET m  == Len(yy)
        wy == Force([i \in 1..m |-> Mul(wt[i], yy[i])])
        mu == Div(SumSeq(wy), SumSeq(wt))
    IN IF mode = "mean" THEN Seq0(m, mu)
       ELSE Force([i \in 1..m |-> Div(Add(wy[i], Mul(lmda, mu)), Add(wt[i], lmda))])

----------------------------------------------------------------------------
(* GCV score of one candidate (lines 76-84)                                *)

\* gamma = w_temp / (w_temp + lmda * ((-1 * d_eigs) ** 2))
Gamma(wt, lmda, d) ==
    Force([k \in 1..Len(wt) |-> Div(wt[k], Add(wt[k], Mul(lmda, Sq(Mul(-One, d[k])))))])

\* wsse = (((w_temp ** 0.5) * (y - NDVI_smoothed)) ** 2).sum()
Wsse(yy, sm, wt) ==
    SumSeq([k \in 1..Len(yy) |-> Sq(Mul(Sqrt(wt[k]), Sub(yy[k], sm[k])))])

\* denominator = w_temp.sum() * (1 - (tr_H / (w_temp.sum()))) ** 2
Denominator(wsum, tr_H) == Mul(wsum, Sq(Sub(One, Div(tr_H, wsum))))

\* gcv_score = wsse / denominator.  Both divisions are of a float by a float
\* and raise ZeroDivisionError when the divisor is zero.
GcvScore(yy, sm, wt, lmda, d) ==
    LET wsum == SumSeq(wt)
        den  == Denominator(wsum, SumSeq(Gamma(wt, lmda, d)))
    IN IF IsZero(wsum) \/ IsZero(den) THEN [raises |-> TRUE, score |-> NaN]
       ELSE [raises |-> FALSE, score |-> Div(Wsse(yy, sm, wt), den)]

----------------------------------------------------------------------------
(* Grid scan of one robust iteration (lines 73-91)                         *)

Unbound == <<>>

\* if gcv[0] < gcv_temp[0]: gcv_temp = gcv; tempNDVI_arr = NDVIhat
Better(gcv, incumbent) == Lt(gcv.score, incumbent.score)

\* the candidates of `smoothing` from index i on, scanned in order; acc holds
\* gcv_temp, tempNDVI_arr, the candidate records so far and the raise flag
RECURSIVE Scan(_, _, _, _, _, _, _)
Scan(mode, yy, wt, d, smoothing, i, acc) ==
    IF i > Len(smoothing) \/ acc.raised THEN acc
    ELSE LET lmda == smoothing[i]
             NDVI_smoothed == ws2d(mode, yy, lmda, wt)
             gcv_score == GcvScore(yy, NDVI_smoothed, wt, lmda, d)
             gcv == [score |-> gcv_score.score, lmda |-> lmda]
         IN IF gcv_score.raises
            THEN Scan(mode, yy, wt, d, smoothing, i + 1,
                      [acc EXCEPT !.raised = TRUE, !.ncalls = @ + 1])
            ELSE Scan(mode, yy, wt, d, smoothing, i + 1,
                      [gcv_temp |-> IF Better(gcv, acc.gcv_temp) THEN gcv ELSE acc.gcv_temp,
                       temp     |-> IF Better(gcv, acc.gcv_temp) THEN NDVI_smoothed
                                    ELSE acc.temp,
                       scanned  |-> Append(acc.scanned, gcv),
                       ncalls   |-> acc.ncalls + 1,
                       raised   |-> FALSE])

\* smoothing = 10**llas, or the penalty of the second record from the third
\* iteration on (lines 63-71)
Smoothing(iter, hist, grid) ==
    LET Sopt_Rog_val == IF iter > 1 THEN hist[2].lmda ELSE Zero
    IN IF IsZero(Sopt_Rog_val) THEN [i \in 1..Len(grid) |-> Pow10(grid[i])]
       ELSE <<Sopt_Rog_val>>

----------------------------------------------------------------------------
(* Robustness update (lines 93-107)                                        *)

RECURSIVE Insert(_, _)
Insert(sorted, a) ==
    IF sorted = <<>> THEN <<a>>
    ELSE IF Lt(a, Head(sorted)) THEN <<a>> \o sorted
    ELSE <<Head(sorted)>> \o Insert(Tail(sorted), a)

RECURSIVE Sort(_)
Sort(s) == IF s = <<>> THEN <<>> ELSE Insert(Sort(Tail(s)), Head(s))

\* numpy.median: NaN as soon as one element is NaN
Median(s) ==
    IF s = <<>> \/ \E i \in 1..Len(s) : IsNaN(s[i]) THEN NaN
    ELSE LET t == Sort(s)
             h == Len(s) \div 2
         IN IF Len(s) % 2 = 1 THEN t[h + 1] ELSE Div(Add(t[h], t[h + 1]), 2 * SC)

\* arr[mask]
RECURSIVE Masked(_, _)
Masked(arr, mask) ==
    IF arr = <<>> THEN <<>>
    ELSE (IF Head(mask) THEN <<Head(arr)>> ELSE <<>>) \o Masked(Tail(arr), Tail(mask))

MadScale == 1483
TukeyC == 4685

Residuals(yy, fit) == Force([k \in 1..Len(yy) |-> Sub(yy[k], fit[k])])

Mad(r_arr, rw) ==
    LET sel == Masked(r_arr, [k \in 1..Len(rw) |-> Ne(rw[k], Zero)])
        med == Median(sel)
    IN Median([k \in 1..Len(sel) |-> Abs(Sub(sel[k], med))])

\* u_arr = r_arr / (1.4826 * MAD * numpy.sqrt(1 - gamma.sum() / n))
UArr(r_arr, rw, gsum, nn) ==
    LET scale == Mul(Mul(MadScale, Mad(r_arr, rw)), Sqrt(Sub(One, Div(gsum, nn))))
    IN Force([k \in 1..Len(r_arr) |-> Div(r_arr[k], scale)])

\* the biweight without line 107: a positive residual is treated like any other
TukeyNoOverride(r, u) ==
    LET t == Div(u, TukeyC)
    IN IF Gt(Abs(t), One) THEN Zero ELSE Sq(Sub(One, Sq(t)))

\* lines 104-107: the biweight, 0 beyond the cut-off, 1 for positive residuals
Tukey(r, u) ==
    LET t == Div(u, TukeyC)
    IN IF Gt(r, Zero) THEN One
       ELSE IF Gt(Abs(t), One) THEN Zero
       ELSE Sq(Sub(One, Sq(t)))

\* the new r_weights, from the residuals and the standardised residuals
RobustUpdate(r_arr, u) == Force([k \in 1..Len(r_arr) |-> Tukey(r_arr[k], u[k])])

\* w * r_weights
Times(a, b) == Force([k \in 1..Len(a) |-> Mul(a[k], b[k])])

----------------------------------------------------------------------------
(* Envelope pass (lines 123-139)                                           *)

EnvWeights(yy, zz, rwts, pp) ==
    Force([j \in 1..Len(yy) |-> Mul(rwts[j], IF Gt(yy[j], zz[j]) THEN pp ELSE Sub(One, pp))])

TotalChange(a, b) == SumSeq([j \in 1..Len(a) |-> Abs(Sub(a[j], b[j]))])

----------------------------------------------------------------------------
(* Inputs                                                                  *)

MaxLen == 7
MaxGrid == 2

\* an argument or result the call has not read or written yet
NotRead == MaxMag + 4

NoDataVals == {0}
ValidVals == {-3 * SC, SC \div 2, (3 * SC) \div 2}
NonFinite == {NaN, PInf}
\* the series of valid and nodata samples in ascending order, and the same
\* ended by one NaN or Inf
Series(nd) ==
    LET Plain(m) == {s \in [1..m -> ValidVals \cup {nd}] :
                        \A i \in 1..(m - 1) : s[i] <= s[i + 1]}
    IN UNION {Plain(m) : m \in 1..MaxLen}
       \cup {Append(s, x) : s \in UNION {Plain(m) : m \in 0..(MaxLen - 1)}, x \in NonFinite}
Exponents == {0, 1}
Grids == UNION {[1..g -> Exponents] : g \in 1..MaxGrid}
Envelopes == {SC \div 2, (9 * SC) \div 10}

----------------------------------------------------------------------------
(* State                                                                   *)

VARIABLES
    variant,         \* "guv": ws2dwcvp, "jit": _ws2dwcvp
    y, nodata,       \* the series and the nodata value
    p, llas, robust, \* the other arguments, bound where the code first reads them
    smoother,        \* which smoother stands for ws2d in this call
    pc,              \* "start", "robust", "select", "envelope", "final", "done", "raised"
    w, n,            \* validity weights, number of valid samples
    r_weights, robust_weights,
    robust_gcv,      \* one [score, lmda] record per robust iteration
    gcv_temp, tempNDVI_arr,
    u_arr,           \* the standardised residuals of the latest robustness update
    scanned,         \* the candidates' records of the latest grid scan, in order
    z, znew, ww,
    passes,          \* envelope passes made
    converged,       \* the envelope loop left by its break
    lopt, out,
    calls,           \* the smoothing calls so far: [lmda, w]
    ref              \* the result of the call under "guv", kept for the comparison

args == <<p, llas, robust, smoother>>
loop == <<w, n, r_weights, robust_weights, robust_gcv, gcv_temp, tempNDVI_arr, u_arr,
          scanned>>
env == <<z, znew, ww, passes, converged>>
vars == <<variant, y, nodata, args, pc, loop, env, lopt, out, calls, ref>>

Init ==
    /\ variant = "guv"
    /\ nodata \in NoDataVals
    /\ y \in Series(nodata)
    /\ p = NotRead /\ llas = <<>> /\ robust = FALSE /\ smoother = "none"
    /\ pc = "start"
    /\ w = <<>> /\ n = NotRead
    /\ r_weights = <<>> /\ robust_weights = <<>>
    /\ robust_gcv = <<>>
    /\ gcv_temp = [score |-> NotRead, lmda |-> NotRead]
    /\ tempNDVI_arr = Unbound
    /\ u_arr = <<>>
    /\ scanned = <<>>
    /\ z = <<>> /\ znew = <<>> /\ ww = <<>>
    /\ passes = 0 /\ converged = FALSE
    /\ lopt = NotRead /\ out = <<>>
    /\ calls = <<>>
    /\ ref = [pc |-> "none"]

----------------------------------------------------------------------------
(* ws2dwcvp, lines 29-44 and 147-149: fewer than six valid samples         *)

Fallback ==
    /\ pc = "start" /\ variant = "guv"
    /\ CountValid(y, nodata) <= MinValid
    /\ w' = Validity(y, nodata)
    /\ n' = CountValid(y, nodata) * SC
    /\ \E g \in GarbageInt16 : out' = [i \in 1..Len(y) |-> CastInt16(y[i], g)]
    /\ lopt' = Zero
    /\ pc' = "done"
    /\ UNCHANGED <<variant, y, nodata, args, r_weights, robust_weights, robust_gcv,
                   gcv_temp, tempNDVI_arr, u_arr, scanned, env, calls, ref>>

\* the buffers and the placeholder record of lines 46-61 (169-186)
Buffers ==
    /\ z' = Seq0(Len(y), Zero) /\ znew' = Seq0(Len(y), Zero)
    /\ ww' = Seq0(Len(y), Zero)
    /\ r_weights' = Seq0(Len(y), One)
    /\ robust_gcv' = <<>>
    /\ gcv_temp' = [score |-> PInf, lmda |-> Zero]
    /\ pc' = "robust"
    /\ UNCHANGED <<variant, y, nodata, p, robust_weights, tempNDVI_arr, u_arr, scanned,
                   passes, converged, lopt, out, calls, ref>>

\* the arguments the loop reads: the same as in the call before, if it read them
BindArgs ==
    IF smoother = "none"
    THEN robust' \in BOOLEAN /\ llas' \in Grids /\ smoother' \in Smoothers
    ELSE UNCHANGED <<robust, llas, smoother>>

\* ws2dwcvp, lines 29-61: more than five valid samples
BeginOptimise ==
    /\ pc = "start" /\ variant = "guv"
    /\ CountValid(y, nodata) > MinValid
    /\ w' = Validity(y, nodata)
    /\ n' = CountValid(y, nodata) * SC
    /\ BindArgs
    /\ Buffers

\* _ws2dwcvp, lines 163-186: the weights are an argument, n is their sum
JitBegin ==
    /\ pc = "start" /\ variant = "jit"
    /\ n' = SumSeq(w)
    /\ BindArgs
    /\ Buffers
    /\ UNCHANGED w

----------------------------------------------------------------------------
(* One robust iteration (lines 62-111): the grid scan, the robustness      *)
(* update and the record appended to the history                           *)

\* a robust loop of 5 iterations
RItsFive == IF robust THEN 5 ELSE 1

RIts == IF robust THEN 4 ELSE 1

ScanOf(iter) ==
    Scan(smoother, y, Times(w, r_weights), d_eigs(Len(y)),
         Smoothing(iter, robust_gcv, llas), 1,
         [gcv_temp |-> gcv_temp, temp |-> tempNDVI_arr, scanned |-> <<>>,
          ncalls |-> 0, raised |-> FALSE])

\* the smoothing calls of a scan that made k of them
ScanCalls(iter, k) ==
    [i \in 1..k |-> [phase |-> "scan", lmda |-> Smoothing(iter, robust_gcv, llas)[i],
                     w |-> Times(w, r_weights)]]

\* the iteration from line 90 on, with `fit` read from tempNDVI_arr
Reweight(res, fit) ==
    LET best_gcv == res.gcv_temp
        w_temp == Times(w, r_weights)
    IN /\ u_arr' = IF robust
                   THEN UArr(Residuals(y, fit), r_weights,
                             SumSeq(Gamma(w_temp, best_gcv.lmda, d_eigs(Len(y)))), n)
                   ELSE u_arr
       /\ r_weights' = IF robust THEN RobustUpdate(Residuals(y, fit), u_arr')
                       ELSE r_weights
       /\ robust_weights' = Times(w, r_weights')
       /\ robust_gcv' = Append(robust_gcv, best_gcv)
       /\ pc' = IF Len(robust_gcv') = RIts THEN "select" ELSE "robust"

Raise ==
    /\ pc' = "raised"
    /\ UNCHANGED <<r_weights, robust_weights, robust_gcv, u_arr>>

RobustIteration ==
    /\ pc = "robust"
    /\ LET iter == Len(robust_gcv)
           res == ScanOf(iter)
       IN /\ calls' = calls \o ScanCalls(iter, res.ncalls)
          /\ scanned' = res.scanned
          /\ gcv_temp' = res.gcv_temp
          /\ IF res.raised
             THEN Raise /\ tempNDVI_arr' = res.temp
             ELSE IF robust /\ res.temp = Unbound
             \* tempNDVI_arr is read before any candidate was assigned to it: the
             \* build either stops the call or reads some array
             THEN \/ Raise /\ tempNDVI_arr' = res.temp
                  \/ /\ tempNDVI_arr' = Seq0(Len(y), Zero)
                     /\ IF IsZero(n) THEN Raise ELSE Reweight(res, tempNDVI_arr')
             ELSE /\ tempNDVI_arr' = res.temp
                  /\ IF robust /\ IsZero(n) THEN Raise ELSE Reweight(res, res.temp)
    /\ UNCHANGED <<variant, y, nodata, args, w, n, env, lopt, out, ref>>

----------------------------------------------------------------------------
(* Lines 113-120: the reported penalty; the envelope parameter is first    *)
(* read by the loop that follows                                           *)

\* always the first record
LoptIndexFirst(rob) == 1

\* the record whose penalty is reported: robust_gcv[1, 1] or robust_gcv[0, 1]
LoptIndex(rob) == IF rob THEN 2 ELSE 1

SelectLopt ==
    /\ pc = "select"
    /\ lopt' = robust_gcv[LoptIndex(robust)].lmda
    /\ z' = Seq0(Len(y), Zero)
    /\ IF p = NotRead THEN p' \in Envelopes ELSE UNCHANGED p
    /\ pc' = "envelope"
    /\ UNCHANGED <<variant, y, nodata, llas, robust, smoother, loop, znew, ww, passes,
                   converged, out, calls, ref>>

EnvelopeCap == 10

\* one pass of the envelope loop (lines 122-142)
EnvelopePass ==
    /\ pc = "envelope"
    /\ ww' = EnvWeights(y, z, robust_weights, p)
    /\ znew' = ws2d(smoother, y, lopt, ww')
    /\ calls' = Append(calls, [phase |-> "envelope", lmda |-> lopt, w |-> ww'])
    /\ passes' = passes + 1
    /\ IF Eq(TotalChange(znew', z), Zero)
       THEN converged' = TRUE /\ z' = z /\ pc' = "final"
       ELSE /\ converged' = FALSE /\ z' = znew'
            /\ pc' = IF passes' = EnvelopeCap THEN "final" ELSE "envelope"
    /\ UNCHANGED <<variant, y, nodata, args, loop, lopt, out, ref>>

\* the final call made with the robust weights, without the envelope weights
FinalWeightsRobust(wwv, rwts) == rwts

\* the weights of the final call, z = ws2d(y, lopt, ww): the ones the last pass
\* computed
FinalWeights(wwv, rwts) == wwv

\* the final smoothing call and the rounding into the output (lines 144-145,
\* 267-270)
FinalSmooth ==
    /\ pc = "final"
    /\ z' = ws2d(smoother, y, lopt, FinalWeights(ww, robust_weights))
    /\ calls' = Append(calls, [phase |-> "final", lmda |-> lopt,
                               w |-> FinalWeights(ww, robust_weights)])
    /\ IF variant = "guv"
       THEN \E g \in GarbageInt16 : out' = [i \in 1..Len(y) |-> CastInt16(Round(z'[i]), g)]
       ELSE out' = [i \in 1..Len(y) |-> Round(z'[i])]
    /\ pc' = "done"
    /\ UNCHANGED <<variant, y, nodata, args, loop, znew, ww, passes, converged, lopt, ref>>

Next ==
    \/ Fallback
    \/ BeginOptimise
    \/ RobustIteration
    \/ SelectLopt
    \/ EnvelopePass
    \/ FinalSmooth

Spec == Init /\ [][Next]_vars

----------------------------------------------------------------------------
(* The two entry points on the same input: ws2dwcvp first, then _ws2dwcvp  *)
(* with the validity weights ws2dwcvp derives and the same other arguments *)

DualSeries(nd) == {s \in Series(nd) : Len(s) >= MaxLen - 2 /\ Len(s) < MaxLen
                                      /\ \A i \in 1..Len(s) : IsFin(s[i])}

InitDual ==
    /\ variant = "guv"
    /\ nodata \in NoDataVals
    /\ y \in DualSeries(nodata)
    /\ p = NotRead /\ llas = <<>> /\ robust = FALSE /\ smoother = "none"
    /\ pc = "start"
    /\ w = <<>> /\ n = NotRead
    /\ r_weights = <<>> /\ robust_weights = <<>>
    /\ robust_gcv = <<>>
    /\ gcv_temp = [score |-> NotRead, lmda |-> NotRead]
    /\ tempNDVI_arr = Unbound
    /\ u_arr = <<>>
    /\ scanned = <<>>
    /\ z = <<>> /\ znew = <<>> /\ ww = <<>>
    /\ passes = 0 /\ converged = FALSE
    /\ lopt = NotRead /\ out = <<>>
    /\ calls = <<>>
    /\ ref = [pc |-> "none"]

Redispatch ==
    /\ variant = "guv" /\ pc \in {"done", "raised"}
    /\ ref' = [pc |-> pc, out |-> out, lopt |-> lopt, calls |-> calls]
    /\ variant' = "jit"
    /\ w' = Validity(y, nodata)
    /\ pc' = "start"
    /\ n' = NotRead
    /\ r_weights' = <<>> /\ robust_weights' = <<>>
    /\ robust_gcv' = <<>>
    /\ gcv_temp' = [score |-> NotRead, lmda |-> NotRead]
    /\ tempNDVI_arr' = Unbound
    /\ u_arr' = <<>>
    /\ scanned' = <<>>
    /\ z' = <<>> /\ znew' = <<>> /\ ww' = <<>>
    /\ passes' = 0 /\ converged' = FALSE
    /\ lopt' = NotRead /\ out' = <<>>
    /\ calls' = <<>>
    /\ UNCHANGED <<y, nodata, args>>

NextDual ==
    \/ Fallback
    \/ BeginOptimise
    \/ Redispatch
    \/ JitBegin
    \/ RobustIteration
    \/ SelectLopt
    \/ EnvelopePass
    \/ FinalSmooth

SpecDual == InitDual /\ [][NextDual]_vars

----------------------------------------------------------------------------
(* Properties                                                              *)

Le(a, b) == Lt(a, b) \/ Eq(a, b)

\* the call went through the optimisation and has completed k robust iterations
Optimising == pc \in {"robust", "select", "envelope", "final", "done"}
Iterated == Optimising /\ robust_gcv # <<>>
FallbackDone == variant = "guv" /\ pc = "done" /\ robust_gcv = <<>>

LastRecord == robust_gcv[Len(robust_gcv)]
InScan(rec) == \E i \in 1..Len(scanned) : scanned[i] = rec
CallsOf(ph) == {i \in 1..Len(calls) : calls[i].phase = ph}
LastScanCall == calls[CHOOSE i \in CallsOf("scan") : \A j \in CallsOf("scan") : j <= i]

\* C1 as stated: with at most 5 valid samples no smoothing call is made, the
\* output equals the input sample for sample and the penalty is 0.
C1_FallbackIdentity ==
    FallbackDone => calls = <<>> /\ out = y /\ lopt = Zero

\* C2 as stated: the record a grid scan yields is that of the first candidate of
\* this scan whose score is <= the score of every candidate of this scan.
C2_SelectorMinimal ==
    Iterated /\ scanned # <<>> =>
        \E i \in 1..Len(scanned) :
            /\ scanned[i] = LastRecord
            /\ \A j \in 1..Len(scanned) : Le(scanned[i].score, scanned[j].score)
            /\ \A j \in 1..(i - 1) : Lt(scanned[i].score, scanned[j].score)

\* the grid of the i-th robust iteration (i from 1)
GridOf(i) == IF i <= 2 THEN {Pow10(llas[k]) : k \in 1..Len(llas)}
             ELSE {robust_gcv[2].lmda}

\* C3 as stated: the penalty each robust iteration records is a member of the
\* grid that iteration scans, and never the placeholder 0.
C3_PenaltyInGrid ==
    Iterated =>
        \A i \in 1..Len(robust_gcv) :
            robust_gcv[i].lmda \in GridOf(i) /\ robust_gcv[i].lmda # Zero

\* C4: the reported penalty is that of the second record when robust and of the
\* only record otherwise, and every envelope pass and the final call smooth
\* with exactly that penalty.
C4_ReportedPenalty ==
    pc \in {"envelope", "final", "done"} /\ robust_gcv # <<>> =>
        /\ lopt = robust_gcv[IF robust THEN 2 ELSE 1].lmda
        /\ \A i \in CallsOf("envelope") \cup CallsOf("final") : calls[i].lmda = lopt

C4_Witness ==
    /\ pc = "done" /\ robust /\ Len(robust_gcv) = 4
    /\ robust_gcv[2].lmda # robust_gcv[1].lmda
    /\ Lt(robust_gcv[4].score, robust_gcv[2].score)
    /\ CallsOf("envelope") # {}

\* C5 as stated: the combined weight of an invalid sample is 0 in every state,
\* and so is the weight passed for it in every smoothing call.
C5_InvalidStaysZero ==
    \A j \in 1..Len(w) :
        w[j] = Zero =>
            /\ robust_weights # <<>> => robust_weights[j] = Zero
            /\ \A i \in 1..Len(calls) : calls[i].w[j] = Zero

\* C6: the curve returned before rounding is the result of one more smoothing
\* call made with the weights and penalty of the last envelope pass, within the
\* cap of 10 passes; after an early convergence it equals the converged estimate.
C6_FinalCurve ==
    pc = "done" /\ calls # <<>> =>
        LET k == Len(calls)
        IN /\ passes >= 1 /\ passes <= 10
           /\ calls[k].phase = "final" /\ calls[k - 1].phase = "envelope"
           /\ calls[k].w = calls[k - 1].w /\ calls[k].w = ww
           /\ calls[k].lmda = calls[k - 1].lmda
           /\ z = ws2d(smoother, y, calls[k - 1].lmda, calls[k - 1].w)
           /\ converged => z = znew

C6_Witness ==
    /\ pc = "done" /\ converged /\ passes >= 2 /\ passes < 10
    /\ \E j \in 1..Len(ww) : ww[j] # robust_weights[j]
    /\ \E j \in 1..Len(z) : z[j] # Zero

\* C7: after a robustness update every sample with a strictly positive residual
\* has robustness weight exactly 1.
C7_PositiveResidualKeepsWeight ==
    robust /\ Iterated =>
        \A j \in 1..Len(y) :
            Gt(Sub(y[j], tempNDVI_arr[j]), Zero) => r_weights[j] = One

C7_Witness ==
    /\ robust /\ Iterated
    /\ \E j \in 1..Len(y) :
          /\ Gt(Sub(y[j], tempNDVI_arr[j]), Zero)
          /\ Gt(Abs(Div(u_arr[j], TukeyC)), One)
          /\ r_weights[j] = One
    /\ \E j \in 1..Len(y) : r_weights[j] = Zero /\ w[j] = One

\* an upper bound on the steps a call can still take
StepsLeft ==
    CASE pc = "start" -> 18
      [] pc = "robust" -> 13 + (4 - Len(robust_gcv))
      [] pc = "select" -> 12
      [] pc = "envelope" -> 11 - passes
      [] pc = "final" -> 1
      [] OTHER -> 0

IterationCaps ==
    LET its == IF robust THEN 4 ELSE 1
    IN /\ Len(robust_gcv) <= its
       /\ passes <= 10
       /\ Cardinality(CallsOf("scan")) <= Len(robust_gcv) * Len(llas) + Len(scanned)
       /\ Cardinality(CallsOf("envelope")) = passes
       /\ Cardinality(CallsOf("final")) <= 1
       /\ Len(calls) <= its * Len(llas) + 11
       /\ pc \in {"select", "envelope", "final", "done"} /\ ~FallbackDone
              => Len(robust_gcv) = its
       /\ pc = "done" /\ ~FallbackDone => Cardinality(CallsOf("final")) = 1

\* C8: the robust loop makes at most 1 (robust = false) or 4 (robust = true)
\* iterations and exactly that many when it completes, one record each; the
\* envelope loop makes at most 10 passes with one call each; one final call
\* follows; the calls number at most iterations * grid size + 11; and every
\* step uses up the bounded number of steps left, so every call ends.
C8_IterationCaps ==
    [](IterationCaps /\ StepsLeft >= 0) /\ [][StepsLeft' < StepsLeft]_vars

C8_Witness ==
    /\ pc = "done" /\ robust /\ Len(robust_gcv) = 4 /\ passes = 10
    /\ Len(calls) = 2 * Len(llas) + 2 + 11

\* C9 as stated: the record appended by a robust iteration, and the fit its
\* residuals are taken from, come from the candidates this iteration scanned
\* with this iteration's fitting weights.
C9_RecordFromThisScan ==
    Iterated /\ scanned # <<>> =>
        /\ InScan(LastRecord)
        /\ robust => tempNDVI_arr = ws2d(smoother, y, LastRecord.lmda, LastScanCall.w)

\* C10 as stated: on the same input the two entry points make the same
\* smoothing calls and return the same curve and penalty.
C10_SameResult ==
    variant = "jit" /\ pc \in {"done", "raised"} =>
        /\ ref.pc = pc
        /\ ref.calls = calls
        /\ pc = "done" => ref.out = out /\ ref.lopt = lopt

====
